---- MODULE Spec2Model ----
(***************************************************************************)
(* The container monitor of tedge-container-monitor: the serialized update *)
(* worker (App.worker / App.Update / App.Stop), the reconciliation pass    *)
(* (App.doUpdate), the entity store kept by the thin-edge.io client        *)
(* (tedge.Client) and the container listing (ContainerClient.List).        *)
(*                                                                         *)
(* Goroutines are processes with a program counter; an unbuffered channel  *)
(* is a rendezvous of one sender and one receiver in a single action.      *)
(* Strings that the code builds by concatenation are sequences of parts.   *)
(***************************************************************************)
EXTENDS Integers, Sequences, FiniteSets, TLC

\* ------------------------------------------------------------------ bounds

\* The registration messages the broker delivers to the entity store.
MaxDeliveries == 3

\* The lookups of the current user that fail while NewApp runs.
MaxLookups == 2

\* Update calls and health-check commands issued in one run of the monitor.
MaxRequests == 2
\* Publish / list calls that the transport or the engine fails in one run.
MaxFaults == 1
\* Health-check commands received on the command topic in one run.
MaxHealthChecks == 1

\* ------------------------------------------------------- program constants

ContainerType == "container"
ContainerGroupType == "container-group"
ServiceType == "service"

ComposeProjectLabel == "com.docker.compose.project"
ComposeServiceLabel == "com.docker.compose.service"

\* The name the monitor registers itself under (cli/run/cmd.go).
DefaultServiceName == <<"tedge-container-monitor">>

\* ---------------------------------------------------------------- engine

\* The containers the engine can hold: what ContainerList returns for each,
\* as far as the monitor reads it.  c2 and c3 are two replicas of the same
\* compose service; c4 carries the compose labels by hand, the project one
\* with an empty value.
EngineContainer(id) ==
    CASE id = "c1" -> [ID |-> "c1", Names |-> << <<"/", "a">> >>, State |-> "running",
                       Labels |-> [l \in {} |-> ""]]
      [] id = "c2" -> [ID |-> "c2", Names |-> << <<"/", "p-b-1">> >>, State |-> "running",
                       Labels |-> [l \in {ComposeProjectLabel, ComposeServiceLabel} |->
                                     IF l = ComposeProjectLabel THEN "p" ELSE "b"]]
      [] id = "c3" -> [ID |-> "c3", Names |-> << <<"/", "p-b-2">> >>, State |-> "exited",
                       Labels |-> [l \in {ComposeProjectLabel, ComposeServiceLabel} |->
                                     IF l = ComposeProjectLabel THEN "p" ELSE "b"]]
      [] id = "c4" -> [ID |-> "c4", Names |-> << <<"/", "x">> >>, State |-> "running",
                       Labels |-> [l \in {ComposeProjectLabel, ComposeServiceLabel} |->
                                     IF l = ComposeProjectLabel THEN "" ELSE "b"]]

ContainerIds == {"c1", "c2", "c3"}

\* What the engine holds while the monitor runs.
EngineStates == {{"c2", "c3"}}

\* ------------------------------------------------------------- container

\* strings.TrimPrefix(v[0], "/")
ConvertName(v) ==
    IF Len(v[1]) > 0 /\ v[1][1] = "/" THEN Tail(v[1]) ELSE v[1]

\* Container.GetName: "<project>@<service>" for a compose container.
GetName(c) ==
    IF c.ProjectName = <<>> THEN c.Name ELSE c.ProjectName \o <<"@">> \o c.ServiceName

ConvertToTedgeStatus(v) ==
    IF v \in {"up", "running"} THEN "up" ELSE "down"

\* The value of a label as a string: empty when the label is missing or empty.
Label(item, l) ==
    IF l \in DOMAIN item.Labels /\ item.Labels[l] # "" THEN <<item.Labels[l]>> ELSE <<>>

NewContainerFromDockerContainer(item) ==
    LET container == [Id |-> item.ID,
                      Name |-> ConvertName(item.Names),
                      ProjectName |-> Label(item, ComposeProjectLabel),
                      ServiceName |-> Label(item, ComposeServiceLabel),
                      Labels |-> item.Labels]
        containerType == IF ComposeProjectLabel \in DOMAIN item.Labels
                         THEN ContainerGroupType ELSE ContainerType
    IN  [Name |-> GetName(container),
         Status |-> ConvertToTedgeStatus(item.State),
         ServiceType |-> containerType,
         Container |-> container]

\* FilterOptions{}: the zero value.
EmptyFilter ==
    [Names |-> {}, Labels |-> {}, IDs |-> {},
     Types |-> {}, ExcludeNames |-> {}, ExcludeWithLabel |-> {}]

\* IsEmpty as a test of every field of the criteria.
IsEmptyEveryField(fo) ==
    /\ fo.Names = {} /\ fo.Labels = {} /\ fo.IDs = {}
    /\ fo.Types = {} /\ fo.ExcludeNames = {} /\ fo.ExcludeWithLabel = {}

\* IsEmpty without the test of the ids.
IsEmptyNoIDs(fo) ==
    fo.Names = {} /\ fo.Labels = {}

\* FilterOptions.IsEmpty: no name, label or id include-filter.
IsEmpty(fo) ==
    fo.Names = {} /\ fo.Labels = {} /\ fo.IDs = {}

\* The engine's own filter of ContainerList: the values of one key are
\* alternatives, a container has to pass every key given.  A name value is
\* matched against the container's engine name.
EngineMatches(item, fo) ==
    /\ fo.Names = {} \/ ConvertName(item.Names) \in fo.Names
    /\ fo.IDs = {} \/ item.ID \in fo.IDs
    /\ fo.Labels = {} \/ fo.Labels \subseteq DOMAIN item.Labels

\* A pattern regexp.Compile rejects: an opening parenthesis on its own.
InvalidPattern == <<"(">>

\* "if p, err := regexp.Compile(pattern); err != nil { slog.Warn(...) }"
Compiles(pattern) == pattern # InvalidPattern

\* Regexp.MatchString for the patterns of the model, each of which is the
\* text of one name and occurs in no other name.
MatchString(pattern, name) == pattern = name

\* Client side filters of which an item has to pass one only.
ClientSideKeepsAny(item, fo) ==
    \/ fo.Types # {} /\ item.ServiceType \in fo.Types
    \/ fo.ExcludeNames # {} /\ item.Container.Name \notin fo.ExcludeNames
                            /\ item.Name \notin fo.ExcludeNames
    \/ fo.ExcludeWithLabel # {} /\ fo.ExcludeWithLabel \cap DOMAIN item.Container.Labels = {}
    \/ fo.Types = {} /\ fo.ExcludeNames = {} /\ fo.ExcludeWithLabel = {}

\* The client side filters of List, applied to one converted item: the
\* type allow-list, the exclude patterns that compiled, the exclude labels.
ClientSideKeeps(item, fo) ==
    LET excludeNamesRegex == {pattern \in fo.ExcludeNames : Compiles(pattern)}
    IN  /\ fo.Types = {} \/ item.ServiceType \in fo.Types
        /\ \A pattern \in excludeNamesRegex :
               ~(MatchString(pattern, item.Container.Name) \/ MatchString(pattern, item.Name))
        /\ fo.ExcludeWithLabel \cap DOMAIN item.Container.Labels = {}

RECURSIVE ListFrom(_, _, _)
ListFrom(ids, eng, fo) ==
    IF ids = <<>> THEN <<>>
    ELSE LET id == Head(ids)
             rest == ListFrom(Tail(ids), eng, fo)
             item == NewContainerFromDockerContainer(EngineContainer(id))
         IN  IF id \in eng /\ EngineMatches(EngineContainer(id), fo) /\ ClientSideKeeps(item, fo)
             THEN <<item>> \o rest
             ELSE rest

\* ContainerClient.List on an engine holding the containers eng.
List(eng, fo) == ListFrom(<<"c1", "c2", "c3", "c4">>, eng, fo)


\* ----------------------------------------------------------------- topics

\* Target.Service(name).Topic(): the registration topic of a service.
Topic(name) == <<"te/device/main/service/">> \o name

\* tedge.NewTargetFromTopic: a topic of the service subscription parses.
NewTargetFromTopicOk(t) == Len(t) > 1 /\ t[1] = "te/device/main/service/"

\* The retained registrations the broker may hold when the monitor starts:
\* its own service and the containers registered by an earlier run.
RetainedUniverse ==
    {[t |-> Topic(<<"a">>), payload |-> ContainerType],
     [t |-> Topic(<<"p", "@", "b">>), payload |-> ContainerGroupType]}

OwnRegistration == [t |-> Topic(DefaultServiceName), payload |-> ServiceType]

\* The criteria an Update caller may pass: the configured full scan, one
\* container id, one container name, one label.
FullScan == [EmptyFilter EXCEPT !.Types = {ContainerType, ContainerGroupType}]
ById == [EmptyFilter EXCEPT !.IDs = {"c2"}]
ByLabel == [EmptyFilter EXCEPT !.Labels = {ComposeProjectLabel}]
ByName == [EmptyFilter EXCEPT !.Names = {<<"a">>}]
Filters == {FullScan, ById, ByName, ByLabel}

\* The criteria of the running monitor's own calls: the configured full scan
\* and the scan of one container after an engine event.
MonitorFilters == {FullScan, ById}

Callers == {"u1", "u2"}

\* The goroutine of App.Monitor, as a caller of App.Update.
MonitorCaller == "mon"

\* The actions of the engine's container events that the monitor knows a
\* text for, and one it knows none for.
ContainerEventText ==
    {"create", "start", "stop", "destroy", "remove", "die", "pause", "unpause"}
EventActions == ContainerEventText \cup {"kill"}

\* The containers the engine reports events for.
EventIds == {"c1", "c2"}

\* What arrives on the event channel: container events and events of
\* another type.
EngineEvents ==
    {[Type |-> "container", Action |-> a, ID |-> id] : a \in EventActions, id \in EventIds}
        \cup {[Type |-> "network", Action |-> "create", ID |-> "n1"]}

NoEvent == [Type |-> "none", Action |-> "none", ID |-> "none"]

\* The feature flags the run command reads from its configuration.
Configs == [EnableMetrics : BOOLEAN, EnableEngineEvents : BOOLEAN, DeleteFromCloud : BOOLEAN]
DefaultConfig == [EnableMetrics |-> TRUE, EnableEngineEvents |-> TRUE, DeleteFromCloud |-> TRUE]

\* ------------------------------------------------------------------ state

VARIABLES
    engine,         \* the ids of the containers the engine holds
    Entities,       \* Client.Entities: topic -> declared type
    inbox,          \* registration messages delivered, handler goroutine not yet run
    connected,      \* the MQTT client is connected
    cloudIdentity,  \* Client.Target.CloudIdentity
    wpc,            \* where App.worker is
    passes,         \* the executions of doUpdate, by request number
    nextPass,       \* the number the next accepted request gets
    callers,        \* the goroutines calling App.Update
    results,        \* the goroutines of worker's "go func() { updateResults <- err }"
    healthSenders,  \* the goroutines of Subscribe's handler, blocked on updateRequests
    stop,           \* the goroutine calling App.Stop
    requests,       \* Update calls and health-check commands so far
    faults,         \* failed publish / list / stats calls so far
    monitor,        \* the goroutine running App.Monitor and its context
    config,         \* App.config: the feature flags
    cmd,            \* the run command: where RunE is, its mode and its result
    delivered       \* the registration messages of other clients, as the broker delivered them

vars == <<engine, Entities, inbox, connected, cloudIdentity, wpc, passes, nextPass,
          callers, results, healthSenders, stop, requests, faults, monitor, config, cmd, delivered>>

PassIds == 1..MaxRequests

NoPass ==
    [pc |-> "none", opts |-> EmptyFilter, from |-> "none", removeStale |-> FALSE,
     known |-> {}, existing |-> {}, items |-> <<>>, log |-> <<>>,
     marked |-> <<>>, err |-> "nil"]

IdleCaller == [pc |-> "idle", opts |-> EmptyFilter, req |-> 0, got |-> 0, err |-> "nil"]

\* RunE before its first call of the application.
NoCommand == [pc |-> "none", once |-> FALSE, result |-> "none", lookups |-> 0, found |-> FALSE]

\* App.Monitor before the run command has started it.
NoMonitor ==
    [pc |-> "none", evt |-> NoEvent, published |-> <<>>, ctxDone |-> FALSE,
     received |-> 0, errors |-> 0, targeted |-> 0, full |-> 0]

\* The entity store once the retained registrations R have been handled.
StoreOf(R) ==
    [t \in {m.t : m \in R \cup {OwnRegistration}} |->
        (CHOOSE m \in R \cup {OwnRegistration} : m.t = t).payload]

\* The state NewApp leaves, once the retained registrations of the broker
\* have reached the entity store: the client is connected, the worker waits
\* at its select.
InitWith(engines, stores, identities, configs) ==
    /\ engine \in engines
    /\ \E R \in stores : Entities = StoreOf(R)
    /\ inbox = {}
    /\ connected = TRUE
    /\ cloudIdentity \in identities
    /\ wpc = "select"
    /\ passes = [p \in PassIds |-> NoPass]
    /\ nextPass = 1
    /\ callers = [u \in Callers \cup {MonitorCaller} |-> IdleCaller]
    /\ results = {}
    /\ healthSenders = {}
    /\ stop = [pc |-> "idle", clean |-> FALSE]
    /\ requests = 0
    /\ faults = 0
    /\ monitor = NoMonitor
    /\ config \in configs
    /\ cmd = NoCommand
    /\ delivered = <<>>

\* The running monitor: two replicas of a compose service are up, a
\* container registered by an earlier run is gone; metrics are switched off.
Init ==
    InitWith(EngineStates, {RetainedUniverse}, {"device01"},
             {[DefaultConfig EXCEPT !.EnableMetrics = FALSE]})

\* One caller at a time, over every engine and entity store.  NewApp leaves
\* the cloud identity empty when the cloud names the current user "device_".
InitPass ==
    InitWith(SUBSET ContainerIds, SUBSET RetainedUniverse, {"", "device01"},
             {c \in Configs : c.EnableEngineEvents /\ c.DeleteFromCloud})

\* ---------------------------------------------------------------- helpers

Put(f, k, v) == [x \in DOMAIN f \cup {k} |-> IF x = k THEN v ELSE f[x]]
Del(f, k) == [x \in DOMAIN f \ {k} |-> f[x]]
Range(s) == {s[i] : i \in DOMAIN s}

\* The orders in which a range over a Go map may visit the keys S.
Orders(S) ==
    {s \in [1..Cardinality(S) -> S] : \A i, j \in 1..Cardinality(S) : s[i] = s[j] => i = j}

\* The calls, numbered within one step of a pass, that fail in that step.
FailSets(n) ==
    IF connected
    THEN {F \in SUBSET (1..n) : Cardinality(F) <= MaxFaults - faults}
    ELSE {{}}

\* Client.Publish: the message of one call and whether the call succeeded.
\* A call on a disconnected client fails.
Publish(t, k, payload, retained, i, F) ==
    [t |-> t, k |-> k, payload |-> payload, retained |-> retained,
     ok |-> connected /\ i \notin F]

\* The registration messages the broker sends back to the client's route.
Echo(evs) ==
    {[t |-> evs[i].t, payload |-> evs[i].payload] :
        i \in {j \in DOMAIN evs : evs[j].k = "reg" /\ evs[j].ok}}

\* ------------------------------------------------------------ entity store

\* Client.handleRegistrationMessage, run in a goroutine of its own for every
\* message of the registration route.
HandleRegistrationMessage(m) ==
    /\ m \in inbox
    /\ inbox' = inbox \ {m}
    /\ Entities' = IF m.payload # "" THEN Put(Entities, m.t, m.payload) ELSE Del(Entities, m.t)
    /\ UNCHANGED <<engine, connected, cloudIdentity, wpc, passes, nextPass, callers,
                   results, healthSenders, stop, requests, faults, monitor, config, cmd, delivered>>

\* The registration messages the broker can deliver for the container
\* entities: a registration, or the empty message that clears one.
StoreMessages ==
    RetainedUniverse \cup {[t |-> r.t, payload |-> ""] : r \in RetainedUniverse}

\* The route of the registration subscription: the client library calls it
\* for one message after the other, and each call starts a goroutine of its
\* own for handleRegistrationMessage and returns.
BrokerDelivers(m) ==
    /\ Len(delivered) < MaxDeliveries
    /\ m \notin inbox
    /\ delivered' = Append(delivered, m)
    /\ inbox' = inbox \cup {m}
    /\ UNCHANGED <<engine, Entities, connected, cloudIdentity, wpc, passes, nextPass,
                   callers, results, healthSenders, stop, requests, faults, monitor,
                   config, cmd>>

\* ------------------------------------------------------------------ worker

\* A worker that would take a request without waiting for doUpdate to return.
WorkerAtSelectOrBusy == wpc \in {"select", "busy"}

\* The worker is at its select and can take a request or the shutdown signal.
WorkerAtSelect == wpc = "select"

StartPass(opts, from) ==
    /\ nextPass \in PassIds
    /\ passes' = [passes EXCEPT ![nextPass] =
                    [NoPass EXCEPT !.pc = "getEntities", !.opts = opts, !.from = from]]
    /\ nextPass' = nextPass + 1
    /\ wpc' = "busy"

\* App.Update, first line, against the worker's "case opts := <-a.updateRequests".
Update(u, filters) ==
    /\ callers[u].pc \in {"idle", "returned"}
    /\ requests < MaxRequests
    /\ \E f \in filters :
          callers' = [callers EXCEPT ![u] = [IdleCaller EXCEPT !.pc = "send", !.opts = f]]
    /\ requests' = requests + 1
    /\ UNCHANGED <<engine, Entities, inbox, connected, cloudIdentity, wpc, passes,
                   nextPass, results, healthSenders, stop, faults, monitor, config, cmd, delivered>>

WorkerTakesUpdate(u) ==
    /\ WorkerAtSelect
    /\ callers[u].pc = "send"
    /\ StartPass(callers[u].opts, u)
    /\ callers' = [callers EXCEPT ![u].pc = "recv", ![u].opts = EmptyFilter,
                                  ![u].req = nextPass]
    /\ UNCHANGED <<engine, Entities, inbox, connected, cloudIdentity, results,
                   healthSenders, stop, requests, faults, monitor, config, cmd, delivered>>

\* The route of App.Subscribe: a goroutine that sends the request and ends.
HealthCheckCommand ==
    /\ requests < MaxRequests
    /\ Cardinality(healthSenders) < MaxHealthChecks
    /\ \E name \in {DefaultServiceName, <<"a">>} :
          healthSenders' = healthSenders \cup
             {IF name # DefaultServiceName
              THEN [EmptyFilter EXCEPT !.Names = {name}]
              ELSE EmptyFilter}
    /\ healthSenders' # healthSenders
    /\ requests' = requests + 1
    /\ UNCHANGED <<engine, Entities, inbox, connected, cloudIdentity, wpc, passes,
                   nextPass, callers, results, stop, faults, monitor, config, cmd, delivered>>

WorkerTakesHealthCheck ==
    /\ WorkerAtSelect
    /\ \E f \in healthSenders :
          /\ StartPass(f, "health")
          /\ healthSenders' = healthSenders \ {f}
    /\ UNCHANGED <<engine, Entities, inbox, connected, cloudIdentity, callers, results,
                   stop, requests, faults, monitor, config, cmd, delivered>>

\* A worker that would send the result on updateResults itself.
AfterResultSentByWorker == "sending"

\* "go func() { a.updateResults <- err }()": the send is left to a goroutine
\* and the worker is at the top of its loop again.
AfterResultGoroutine == "select"

\* doUpdate has returned: the worker starts the goroutine that sends the
\* result and goes back to its select.
WorkerSpawnsResult(p) ==
    /\ passes[p].pc = "returned"
    /\ passes' = [passes EXCEPT ![p] = [NoPass EXCEPT !.pc = "finished", !.err = passes[p].err]]
    /\ results' = results \cup {[pass |-> p, err |-> passes[p].err]}
    /\ wpc' = AfterResultGoroutine
    /\ UNCHANGED <<engine, Entities, inbox, connected, cloudIdentity, nextPass, callers,
                   healthSenders, stop, requests, faults, monitor, config, cmd, delivered>>

\* "a.updateResults <- err" of a result goroutine against "<-a.updateResults"
\* of an Update call.
ResultDelivered(r, u) ==
    /\ r \in results
    /\ callers[u].pc = "recv"
    /\ results' = results \ {r}
    /\ callers' = [callers EXCEPT ![u].pc = "returned", ![u].got = r.pass, ![u].err = r.err]
    /\ UNCHANGED <<engine, Entities, inbox, connected, cloudIdentity, wpc, passes,
                   nextPass, healthSenders, stop, requests, faults, monitor, config, cmd, delivered>>


\* ---------------------------------------------------------------- doUpdate

PassVarsUnchanged ==
    UNCHANGED <<engine, Entities, connected, cloudIdentity, wpc, nextPass, callers,
                results, healthSenders, stop, requests, monitor, config, cmd, delivered>>

\* tedgeClient.GetEntities() returns the client's map itself, and never an
\* error; removeStaleServices is decided from the criteria.
GetEntities(p) ==
    /\ passes[p].pc = "getEntities"
    /\ passes' = [passes EXCEPT ![p].pc = "existing",
                                ![p].removeStale = IsEmpty(passes[p].opts)]
    /\ UNCHANGED <<inbox, faults>>
    /\ PassVarsUnchanged

\* "c.mutex.RLock(); defer c.mutex.RUnlock(); return c.Entities, nil": what
\* the caller holds after the call is the client's map, not a copy of it.
ReturnedEntities == Entities

\* A reading of the store that would take every entity for a container.
IsAnyEntity(type) == TRUE

\* The entities a pass takes for its own: those of a container type.
IsContainerEntity(type) == type = ContainerType \/ type = ContainerGroupType

\* "Record all registered services": the range over the client's map, read
\* as it is when the loop runs.
RecordExisting(p) ==
    /\ passes[p].pc = "existing"
    /\ LET entities == ReturnedEntities
           existingServices == {k \in DOMAIN entities : IsContainerEntity(entities[k])}
       IN  passes' = [passes EXCEPT ![p].pc = "list",
                                    ![p].known = existingServices,
                                    ![p].existing = existingServices]
    /\ UNCHANGED <<inbox, faults>>
    /\ PassVarsUnchanged

\* A pass that would go on, with nothing listed, after the listing failed.
ListFailedGoesOn(p) == [passes EXCEPT ![p].pc = "register", ![p].err = "list"]

\* "items, err := a.ContainerClient.List(...); if err != nil { return err }"
ListFailed(p) == [passes EXCEPT ![p].pc = "returned", ![p].err = "list"]

\* a.ContainerClient.List: the listing, or the engine's error, which ends the pass.
ListContainers(p) ==
    /\ passes[p].pc = "list"
    /\ \E ok \in {TRUE} \cup (IF faults < MaxFaults THEN {FALSE} ELSE {}) :
          /\ passes' = IF ok
                       THEN [passes EXCEPT ![p].pc = "register",
                                           ![p].items = List(engine, passes[p].opts)]
                       ELSE ListFailed(p)
          /\ faults' = IF ok THEN faults ELSE faults + 1
    /\ UNCHANGED inbox
    /\ PassVarsUnchanged

\* The test of the known set, inverted.
AlreadyRegisteredInverted(topic, existingServices) == topic \notin existingServices

\* "Skip registration message if it already exists"
AlreadyRegistered(topic, existingServices) == topic \in existingServices

RECURSIVE RegisterLoop(_, _, _)
\* The first loop over the items: what is left of existingServices and the
\* registration messages to publish, in order.
RegisterLoop(items, existingServices, pubs) ==
    IF items = <<>> THEN [existing |-> existingServices, pubs |-> pubs]
    ELSE LET item == Head(items)
             topic == Topic(item.Name)
         IN  IF AlreadyRegistered(topic, existingServices)
             THEN RegisterLoop(Tail(items), existingServices \ {topic}, pubs)
             ELSE RegisterLoop(Tail(items), existingServices \ {topic},
                               Append(pubs, [t |-> topic, payload |-> item.ServiceType]))

RegisterContainers(p) ==
    /\ passes[p].pc = "register"
    /\ LET r == RegisterLoop(passes[p].items, passes[p].existing, <<>>)
       IN  \E F \in FailSets(Len(r.pubs)) :
              LET evs == [i \in 1..Len(r.pubs) |->
                            Publish(r.pubs[i].t, "reg", r.pubs[i].payload, TRUE, i, F)]
              IN  /\ passes' = [passes EXCEPT ![p].pc = "health",
                                              ![p].existing = r.existing,
                                              ![p].log = @ \o evs]
                  /\ inbox' = inbox \cup Echo(evs)
                  /\ faults' = faults + Cardinality(F)
    /\ PassVarsUnchanged

\* "Publish health messages": one retained message for every item.
PublishHealth(p) ==
    /\ passes[p].pc = "health"
    /\ LET items == passes[p].items
       IN  \E F \in FailSets(Len(items)) :
              LET evs == [i \in 1..Len(items) |->
                            Publish(Topic(items[i].Name), "health", items[i].Status, TRUE, i, F)]
              IN  /\ passes' = [passes EXCEPT ![p].pc = "twin", ![p].log = @ \o evs]
                  /\ faults' = faults + Cardinality(F)
    /\ UNCHANGED inbox
    /\ PassVarsUnchanged

\* "update digital twin information": one retained message for every item.
PublishTwin(p) ==
    /\ passes[p].pc = "twin"
    /\ LET items == passes[p].items
       IN  \E F \in FailSets(Len(items)) :
              LET evs == [i \in 1..Len(items) |->
                            Publish(Topic(items[i].Name), "twin", items[i].Container.Id, TRUE, i, F)]
              IN  /\ passes' = [passes EXCEPT ![p].pc = "metrics", ![p].log = @ \o evs]
                  /\ faults' = faults + Cardinality(F)
    /\ UNCHANGED inbox
    /\ PassVarsUnchanged

\* The stats reads of the engine that fail in one step of a pass.
StatsFailSets(n) ==
    {F \in SUBSET (1..n) : Cardinality(F) <= MaxFaults - faults}

\* a.ContainerClient.GetStats for one item: an engine call, whose failure is
\* logged.
GetStats(item, i, F) ==
    [t |-> Topic(item.Name), k |-> "stats", payload |-> item.Container.Id,
     retained |-> FALSE, ok |-> i \notin F]

\* A metrics step that would return the error of a failed stats read.
UpdateMetricsReturnsError(p) ==
    /\ passes[p].pc = "metrics"
    /\ LET items == IF config.EnableMetrics THEN passes[p].items ELSE <<>>
       IN  \E F \in StatsFailSets(Len(items)) :
              LET evs == [i \in 1..Len(items) |-> GetStats(items[i], i, F)]
              IN  /\ passes' = [passes EXCEPT
                                  ![p].pc = IF F = {} THEN "stale" ELSE "returned",
                                  ![p].err = IF F = {} THEN "nil" ELSE "stats",
                                  ![p].log = @ \o evs]
                  /\ faults' = faults + Cardinality(F)
    /\ UNCHANGED inbox
    /\ PassVarsUnchanged

\* "Update metrics": with the feature enabled, one stats read for every item.
UpdateMetrics(p) ==
    /\ passes[p].pc = "metrics"
    /\ LET items == IF config.EnableMetrics THEN passes[p].items ELSE <<>>
       IN  \E F \in StatsFailSets(Len(items)) :
              LET evs == [i \in 1..Len(items) |-> GetStats(items[i], i, F)]
              IN  /\ passes' = [passes EXCEPT ![p].pc = "stale", ![p].log = @ \o evs]
                  /\ faults' = faults + Cardinality(F)
    /\ UNCHANGED inbox
    /\ PassVarsUnchanged


\* DeregisterEntity with its two publishes in the other order.
DeregisterEntityRegistrationFirst(target, n, F) ==
    LET registration == Publish(target, "reg", "", TRUE, n + 1, F)
        health == Publish(target, "health", "", TRUE, n + 2, F)
    IN  IF ~registration.ok THEN <<registration>> ELSE <<registration, health>>

\* DeregisterEntity without the clear of the registration topic.
DeregisterEntityHealthOnly(target, n, F) ==
    <<Publish(target, "health", "", TRUE, n + 1, F)>>

\* Client.DeregisterEntity: clear the health status, then the registration;
\* the calls are numbered from n + 1 within the step.
DeregisterEntity(target, n, F) ==
    LET health == Publish(target, "health", "", TRUE, n + 1, F)
        registration == Publish(target, "reg", "", TRUE, n + 2, F)
    IN  IF ~health.ok THEN <<health>> ELSE <<health, registration>>

\* A stale loop that would go on after a failed twin clear.
TwinClearFailureIgnored(twin) == FALSE

\* "if err := tedgeClient.Publish(<twin topic>, 1, true, ""); err != nil { return err }"
TwinClearFailed(twin) == ~twin.ok

\* The record of one call to the cloud.
CloudCall(target, k, payload, ok) ==
    [t |-> target, k |-> k, payload |-> payload, retained |-> FALSE, ok |-> ok]

\* A stale loop that would ask the cloud about the target there and then.
CloudCallsInLoopAtOnce(target) == <<CloudCall(target, "lookup", "found", TRUE)>>

\* "mark targets for deletion from the cloud, but don't delete them yet":
\* the loop itself makes no call to the cloud.
CloudCallsInLoop(target) == <<>>

RECURSIVE StaleLoop(_, _, _)
\* "Checking for any stale services": the loop over what is left of
\* existingServices, in the order the range visits it.  A failed twin clear
\* returns its error from doUpdate.
StaleLoop(order, F, acc) ==
    IF order = <<>> \/ acc.err # "nil" THEN acc
    ELSE LET staleTopic == Head(order)
             twin == Publish(staleTopic, "twin", "", TRUE, acc.calls + 1, F)
         IN  IF ~NewTargetFromTopicOk(staleTopic)
             THEN StaleLoop(Tail(order), F, acc)
             ELSE IF TwinClearFailed(twin)
             THEN [acc EXCEPT !.log = Append(@, twin), !.calls = @ + 1, !.err = "publish"]
             ELSE LET deregister == DeregisterEntity(staleTopic, acc.calls + 1, F)
                  IN  StaleLoop(Tail(order), F,
                         [acc EXCEPT !.log = Append(@, twin) \o deregister
                                              \o CloudCallsInLoop(staleTopic),
                                     !.calls = @ + 1 + Len(deregister),
                                     !.marked = Append(@, staleTopic)])

\* The criteria decide whether the pass removes stale services at all.
SkipStaleServices(p) ==
    /\ passes[p].pc = "stale"
    /\ ~passes[p].removeStale
    /\ passes' = [passes EXCEPT ![p].pc = "returned"]
    /\ UNCHANGED <<inbox, faults>>
    /\ PassVarsUnchanged

RemoveStaleServices(p) ==
    /\ passes[p].pc = "stale"
    /\ passes[p].removeStale
    /\ \E order \in Orders(passes[p].existing) :
       \E F \in FailSets(3 * Len(order)) :
          LET r == StaleLoop(order, F, [log |-> <<>>, calls |-> 0, marked |-> <<>>,
                                        err |-> "nil"])
              failed == {i \in F : i <= r.calls}
          IN  /\ F = failed
              /\ passes' = [passes EXCEPT
                               ![p].pc = IF r.err = "nil" /\ r.marked # <<>>
                                         THEN "cloud" ELSE "returned",
                               ![p].log = @ \o r.log,
                               ![p].marked = r.marked,
                               ![p].err = r.err]
              /\ inbox' = inbox \cup Echo(r.log)
              /\ faults' = faults + Cardinality(F)
    /\ PassVarsUnchanged

\* What the cloud can answer to the deletion of one managed object.
CloudOutcomes == {"deleted", "deleteFailed", "notFound", "lookupError"}
CloudFailures == {"deleteFailed", "lookupError"}

\* DeleteCumulocityManagedObject with not-found taken for any other error of
\* the lookup, and the delete call made all the same.
DeleteCumulocityManagedObjectStrict(target, outcome) ==
    LET lookup == CloudCall(target, "lookup", outcome, outcome \in {"deleted", "deleteFailed"})
        delete == CloudCall(target, "delete", "", outcome = "deleted")
    IN  IF outcome = "deleted"
        THEN [calls |-> <<lookup, delete>>, deleted |-> TRUE, err |-> "nil"]
        ELSE [calls |-> <<lookup, delete>>, deleted |-> FALSE, err |-> outcome]

\* Client.DeleteCumulocityManagedObject: the lookup by external id and, when
\* the object is found, its deletion; what the calls were and what the
\* function returns.
DeleteCumulocityManagedObject(target, outcome) ==
    LET lookup == CloudCall(target, "lookup",
                            CASE outcome = "notFound" -> "notFound"
                              [] outcome = "lookupError" -> "error"
                              [] OTHER -> "found",
                            outcome \in {"deleted", "deleteFailed"})
        delete == CloudCall(target, "delete", "", outcome = "deleted")
    IN  CASE outcome = "notFound" ->
               [calls |-> <<lookup>>, deleted |-> FALSE, err |-> "nil"]
          [] outcome = "lookupError" ->
               [calls |-> <<lookup>>, deleted |-> FALSE, err |-> "lookup"]
          [] outcome = "deleteFailed" ->
               [calls |-> <<lookup, delete>>, deleted |-> FALSE, err |-> "delete"]
          [] OTHER ->
               [calls |-> <<lookup, delete>>, deleted |-> TRUE, err |-> "nil"]

\* A deletion that would not ask for the cloud identity.
CloudIdentityNotAsked(identity) == TRUE

\* "target.CloudIdentity = tedgeClient.Target.CloudIdentity;
\*  if target.CloudIdentity != "" { ... }"
CloudIdentityKnown(identity) == identity # ""

\* A cloud loop that would stop at the first deletion that failed.
CloudDeleteFailureEndsLoop(r) == r.err # "nil"

\* "if _, err := tedgeClient.DeleteCumulocityManagedObject(target); err != nil
\*  { slog.Warn(...) }": a failed deletion is logged and the loop goes on.
CloudDeleteFailed(r) == FALSE

RECURSIVE CloudLoop(_, _)
\* The loop over markedForDeletion: the calls to the cloud, in order.
CloudLoop(marked, outcomes) ==
    IF marked = <<>> THEN <<>>
    ELSE IF ~CloudIdentityKnown(cloudIdentity) THEN CloudLoop(Tail(marked), outcomes)
    ELSE LET r == DeleteCumulocityManagedObject(Head(marked), outcomes[Head(marked)])
         IN  r.calls \o (IF CloudDeleteFailed(r) THEN <<>>
                         ELSE CloudLoop(Tail(marked), outcomes))

\* "Delete cloud": after the delay, the targets marked for deletion.  The
\* pass waits out the delay at "cloud", and this step is what follows it.
DeleteFromCloud(p) ==
    /\ passes[p].pc = "cloud"
    /\ \E outcomes \in [Range(passes[p].marked) -> CloudOutcomes] :
          LET failures == {t \in DOMAIN outcomes : outcomes[t] \in CloudFailures}
              calls == CloudLoop(passes[p].marked, outcomes)
          IN  /\ calls = <<>> => \A t \in DOMAIN outcomes : outcomes[t] = "notFound"
              /\ Cardinality(failures) <= MaxFaults - faults
              /\ passes' = [passes EXCEPT ![p].pc = "returned", ![p].log = @ \o calls]
              /\ faults' = faults + Cardinality(failures)
    /\ UNCHANGED inbox
    /\ PassVarsUnchanged

\* App.Deregister: the twin clear, the deregistration and, when the option
\* asks for it and the cloud identity is known, the deletion in the cloud;
\* the calls it makes and what it returns.
Deregister(name, F, outcome) ==
    LET target == Topic(name)
        twin == Publish(target, "twin", "", TRUE, 1, F)
    IN  IF ~twin.ok THEN [log |-> <<twin>>, err |-> "publish"]
        ELSE [log |-> <<twin>> \o DeregisterEntity(target, 1, F)
                        \o (IF config.DeleteFromCloud /\ CloudIdentityKnown(cloudIdentity)
                            THEN DeleteCumulocityManagedObject(target, outcome).calls
                            ELSE <<>>),
              err |-> "nil"]

\* -------------------------------------------------------------------- Stop

StopVarsUnchanged ==
    UNCHANGED <<engine, Entities, inbox, cloudIdentity, passes, nextPass, callers,
                results, healthSenders, requests, faults, monitor, config, cmd, delivered>>

\* App.Stop is called, once.
Stop(clean) ==
    /\ stop.pc = "idle"
    /\ stop' = [pc |-> IF clean THEN "disconnect" ELSE "signal", clean |-> clean]
    /\ UNCHANGED <<connected, wpc>>
    /\ StopVarsUnchanged

\* a.client.Client.Disconnect(250)
StopDisconnects ==
    /\ stop.pc = "disconnect"
    /\ connected' = FALSE
    /\ stop' = [stop EXCEPT !.pc = "signal"]
    /\ UNCHANGED wpc
    /\ StopVarsUnchanged

\* "a.shutdown <- struct{}{}" against the worker's "case <-a.shutdown".
WorkerTakesShutdown ==
    /\ stop.pc = "signal"
    /\ WorkerAtSelect
    /\ wpc' = "exiting"
    /\ stop' = [stop EXCEPT !.pc = "wait"]
    /\ UNCHANGED connected
    /\ StopVarsUnchanged

\* The worker returns: the deferred a.wg.Done().
WorkerExits ==
    /\ wpc = "exiting"
    /\ wpc' = "done"
    /\ UNCHANGED <<connected, stop>>
    /\ StopVarsUnchanged

\* A Stop that would not wait for the worker.
WaitSkipped == TRUE

\* a.wg.Wait() returns once the worker has called Done.
WaitGroupDone == wpc = "done"

StopReturns ==
    /\ stop.pc = "wait"
    /\ WaitGroupDone
    /\ stop' = [stop EXCEPT !.pc = "returned"]
    /\ UNCHANGED <<connected, wpc>>
    /\ StopVarsUnchanged

\* ----------------------------------------------------------------- Monitor

\* Events and errors that reach the monitor in one run.
MaxEvents == 2

TargetedActions == {"start", "stop", "pause", "unpause"}
FullScanActions == {"destroy", "remove"}

\* A monitor that would scan everything after any event that changes a container.
EventCriteriaAlwaysFull(evt) ==
    IF evt.Type = "container" /\ evt.Action \in TargetedActions \cup FullScanActions
    THEN <<EmptyFilter>>
    ELSE <<>>

\* A monitor that would scan everything after a create event as well.
EventCriteriaCreateScans(evt) ==
    CASE evt.Type = "container" /\ evt.Action \in TargetedActions ->
            <<[EmptyFilter EXCEPT !.IDs = {evt.ID}]>>
      [] evt.Type = "container" /\ evt.Action \in FullScanActions \cup {"create"} ->
            <<EmptyFilter>>
      [] OTHER -> <<>>

\* "switch evt.Action": the criteria of the Update calls Monitor makes for
\* one event, in order.
EventCriteria(evt) ==
    CASE evt.Type = "container" /\ evt.Action \in TargetedActions ->
            <<[EmptyFilter EXCEPT !.IDs = {evt.ID}]>>
      [] evt.Type = "container" /\ evt.Action \in FullScanActions ->
            <<EmptyFilter>>
      [] OTHER -> <<>>

\* The engine once it has reported the event.
EngineAfter(evt) ==
    CASE evt.Type = "container" /\ evt.Action \in FullScanActions -> engine \ {evt.ID}
      [] evt.Type = "container" /\ evt.Action = "create" -> engine \cup {evt.ID}
      [] OTHER -> engine

\* A monitor that would publish a message for every event it receives.
PublishEventAlways(evt) ==
    <<Publish(Topic(DefaultServiceName), "e", evt.Action, FALSE, 1, {})>>

\* "if a.config.EnableEngineEvents { if len(payload) > 0 { a.client.Publish(...) } }":
\* the event message, whose failure is logged.
PublishEvent(evt) ==
    IF config.EnableEngineEvents /\ evt.Type = "container" /\ evt.Action \in ContainerEventText
    THEN <<Publish(Topic(DefaultServiceName), "e", evt.Action, FALSE, 1, {})>>
    ELSE <<>>

\* The events that ask for a pass, counted as they arrive.
CountEvent(m, evt) ==
    [m EXCEPT !.received = @ + 1,
              !.targeted = IF evt.Type = "container" /\ evt.Action \in TargetedActions
                           THEN @ + 1 ELSE @,
              !.full = IF evt.Type = "container" /\ evt.Action \in FullScanActions
                       THEN @ + 1 ELSE @]

MonitorVarsUnchanged ==
    UNCHANGED <<Entities, inbox, connected, cloudIdentity, wpc, passes, nextPass,
                results, healthSenders, stop, faults, config, cmd, delivered>>

\* "go application.Monitor(ctx, container.FilterOptions{})"
StartMonitor ==
    /\ monitor.pc = "none"
    /\ monitor' = [monitor EXCEPT !.pc = "select"]
    /\ UNCHANGED <<engine, callers, requests>>
    /\ MonitorVarsUnchanged

\* "case evt := <-evtCh": the engine's change and the delivery of its event
\* are one step.  An event that asks for a pass leaves Monitor in a.Update,
\* at the send of the request; any other is handled to the end.
MonitorReceivesEvent(evt) ==
    /\ monitor.pc = "select"
    /\ monitor.received < MaxEvents
    /\ engine' = EngineAfter(evt)
    /\ LET criteria == EventCriteria(evt)
       IN  IF criteria # <<>>
           THEN /\ requests < MaxRequests
                /\ callers' = [callers EXCEPT ![MonitorCaller] =
                                 [IdleCaller EXCEPT !.pc = "send", !.opts = criteria[1]]]
                /\ requests' = requests + 1
                /\ monitor' = [CountEvent(monitor, evt) EXCEPT
                                 !.pc = "update", !.evt = evt, !.published = <<>>]
           ELSE /\ monitor' = [CountEvent(monitor, evt) EXCEPT
                                 !.evt = evt, !.published = PublishEvent(evt)]
                /\ UNCHANGED <<callers, requests>>
    /\ MonitorVarsUnchanged

\* a.Update has returned, its result dropped: the rest of the event's case.
MonitorUpdateReturned ==
    /\ monitor.pc = "update"
    /\ callers[MonitorCaller].pc = "returned"
    /\ callers' = [callers EXCEPT ![MonitorCaller].pc = "idle"]
    /\ monitor' = [monitor EXCEPT !.pc = "select", !.published = PublishEvent(monitor.evt)]
    /\ UNCHANGED <<engine, requests>>
    /\ MonitorVarsUnchanged

\* A monitor that would end at an error of the engine.
AfterErrorReturn == "returned"

\* "case err := <-errCh: slog.Info(...)": the loop goes on.
AfterError == "select"

MonitorReceivesError ==
    /\ monitor.pc = "select"
    /\ monitor.received < MaxEvents
    /\ monitor' = [monitor EXCEPT !.pc = AfterError, !.evt = NoEvent, !.published = <<>>,
                                  !.received = @ + 1, !.errors = @ + 1]
    /\ UNCHANGED <<engine, callers, requests>>
    /\ MonitorVarsUnchanged

\* "<-stop; cancel()" of the run command.
CancelContext ==
    /\ monitor.pc # "none"
    /\ ~monitor.ctxDone
    /\ monitor' = [monitor EXCEPT !.ctxDone = TRUE]
    /\ UNCHANGED <<engine, callers, requests>>
    /\ MonitorVarsUnchanged

\* "case <-ctx.Done(): return ctx.Err()"
MonitorReturns ==
    /\ monitor.pc = "select"
    /\ monitor.ctxDone
    /\ monitor' = [monitor EXCEPT !.pc = "returned"]
    /\ UNCHANGED <<engine, callers, requests>>
    /\ MonitorVarsUnchanged

\* ------------------------------------------------------------ run command

\* cliContext.GetFilterOptions() of a run without include filters.
RunFilters == {FullScan}

RunVarsUnchanged ==
    UNCHANGED <<engine, Entities, inbox, connected, cloudIdentity, wpc, passes, nextPass,
                results, healthSenders, faults, config, delivered>>

\* RunE, after NewApp and the wait for the entity store: the call of
\* application.Update, in run-once or in long-running mode.
RunUpdate(once) ==
    /\ cmd.pc = "none"
    /\ requests < MaxRequests
    /\ \E f \in RunFilters :
          callers' = [callers EXCEPT !["u1"] = [IdleCaller EXCEPT !.pc = "send", !.opts = f]]
    /\ requests' = requests + 1
    /\ cmd' = [cmd EXCEPT !.pc = "update", !.once = once]
    /\ UNCHANGED <<monitor, stop>>
    /\ RunVarsUnchanged

\* A run-once command that would drop the error of its Update call.
RunOnceResultDropped(err) == "nil"

\* "return application.Update(cliContext.GetFilterOptions())"
RunOnceResult(err) == err

\* Run-once mode: Update has returned, its error is the result of RunE, and
\* the deferred application.Stop(true) starts.
RunOnceUpdateReturned ==
    /\ cmd.pc = "update" /\ cmd.once
    /\ callers["u1"].pc = "returned"
    /\ stop.pc = "idle"
    /\ cmd' = [cmd EXCEPT !.pc = "stop", !.result = RunOnceResult(callers["u1"].err)]
    /\ stop' = [pc |-> "disconnect", clean |-> TRUE]
    /\ UNCHANGED <<callers, requests, monitor>>
    /\ RunVarsUnchanged

\* Long-running mode: Update has returned, a failure is logged, and the
\* monitor is started; RunE waits for a signal.
RunStartsMonitor ==
    /\ cmd.pc = "update" /\ ~cmd.once
    /\ callers["u1"].pc = "returned"
    /\ monitor.pc = "none"
    /\ cmd' = [cmd EXCEPT !.pc = "wait"]
    /\ monitor' = [monitor EXCEPT !.pc = "select"]
    /\ UNCHANGED <<callers, requests, stop>>
    /\ RunVarsUnchanged

\* "<-stop; cancel(); application.Stop(false)": the signal arrives, the
\* context is cancelled and Stop comes to its send of the shutdown signal.
RunSignalled ==
    /\ cmd.pc = "wait"
    /\ stop.pc = "idle"
    /\ cmd' = [cmd EXCEPT !.pc = "stop"]
    /\ monitor' = [monitor EXCEPT !.ctxDone = TRUE]
    /\ stop' = [pc |-> "signal", clean |-> FALSE]
    /\ UNCHANGED <<callers, requests>>
    /\ RunVarsUnchanged

\* Stop has returned and RunE returns: the error of Update in run-once mode,
\* nil in long-running mode.
RunReturns ==
    /\ cmd.pc = "stop"
    /\ stop.pc = "returned"
    /\ cmd' = [cmd EXCEPT !.pc = "returned",
                          !.result = IF cmd.once THEN @ ELSE "nil"]
    /\ UNCHANGED <<callers, requests, monitor, stop>>
    /\ RunVarsUnchanged

\* ----------------------------------------------------------- specification

Next ==
    \/ \E m \in inbox : HandleRegistrationMessage(m)
    \/ \E u \in Callers : Update(u, MonitorFilters)
    \/ \E u \in Callers : WorkerTakesUpdate(u)
    \/ HealthCheckCommand
    \/ WorkerTakesHealthCheck
    \/ \E p \in PassIds : GetEntities(p)
    \/ \E p \in PassIds : RecordExisting(p)
    \/ \E p \in PassIds : ListContainers(p)
    \/ \E p \in PassIds : RegisterContainers(p)
    \/ \E p \in PassIds : PublishHealth(p)
    \/ \E p \in PassIds : PublishTwin(p)
    \/ \E p \in PassIds : UpdateMetrics(p)
    \/ \E p \in PassIds : SkipStaleServices(p)
    \/ \E p \in PassIds : RemoveStaleServices(p)
    \/ \E p \in PassIds : DeleteFromCloud(p)
    \/ \E p \in PassIds : WorkerSpawnsResult(p)
    \/ \E r \in results, u \in Callers : ResultDelivered(r, u)
    \/ \E clean \in BOOLEAN : Stop(clean)
    \/ StopDisconnects
    \/ WorkerTakesShutdown
    \/ WorkerExits
    \/ StopReturns

Spec == Init /\ [][Next]_vars

\* The run command's own use of the worker: one Update call at a time, the
\* transport up.
NextPass ==
    \/ \E m \in inbox : HandleRegistrationMessage(m)
    \/ Update("u1", Filters)
    \/ WorkerTakesUpdate("u1")
    \/ \E p \in PassIds : GetEntities(p)
    \/ \E p \in PassIds : RecordExisting(p)
    \/ \E p \in PassIds : ListContainers(p)
    \/ \E p \in PassIds : RegisterContainers(p)
    \/ \E p \in PassIds : PublishHealth(p)
    \/ \E p \in PassIds : PublishTwin(p)
    \/ \E p \in PassIds : UpdateMetrics(p)
    \/ \E p \in PassIds : SkipStaleServices(p)
    \/ \E p \in PassIds : RemoveStaleServices(p)
    \/ \E p \in PassIds : DeleteFromCloud(p)
    \/ \E p \in PassIds : WorkerSpawnsResult(p)
    \/ \E r \in results : ResultDelivered(r, "u1")

SpecPass == InitPass /\ [][NextPass]_vars


\* The running monitor after the first Update of the run command: passes
\* are asked for by engine events only.
InitMonitor ==
    InitWith({{"c1", "c2"}}, {RetainedUniverse}, {"device01"},
             {c \in Configs : c.EnableMetrics /\ c.DeleteFromCloud})

NextMonitor ==
    \/ \E m \in inbox : HandleRegistrationMessage(m)
    \/ StartMonitor
    \/ \E evt \in EngineEvents : MonitorReceivesEvent(evt)
    \/ MonitorUpdateReturned
    \/ MonitorReceivesError
    \/ CancelContext
    \/ MonitorReturns
    \/ WorkerTakesUpdate(MonitorCaller)
    \/ \E p \in PassIds : GetEntities(p)
    \/ \E p \in PassIds : RecordExisting(p)
    \/ \E p \in PassIds : ListContainers(p)
    \/ \E p \in PassIds : RegisterContainers(p)
    \/ \E p \in PassIds : PublishHealth(p)
    \/ \E p \in PassIds : PublishTwin(p)
    \/ \E p \in PassIds : UpdateMetrics(p)
    \/ \E p \in PassIds : SkipStaleServices(p)
    \/ \E p \in PassIds : RemoveStaleServices(p)
    \/ \E p \in PassIds : DeleteFromCloud(p)
    \/ \E p \in PassIds : WorkerSpawnsResult(p)
    \/ \E r \in results : ResultDelivered(r, MonitorCaller)

SpecMonitor == InitMonitor /\ [][NextMonitor]_vars

\* The criteria an Update call can carry: every field empty or not.
Criteria ==
    [Names : SUBSET {<<"a">>}, Labels : SUBSET {ComposeProjectLabel}, IDs : SUBSET {"c2"},
     Types : SUBSET {ContainerType, ContainerGroupType},
     ExcludeNames : SUBSET {<<"a">>, <<"p", "@", "b">>, InvalidPattern},
     ExcludeWithLabel : SUBSET {ComposeProjectLabel}]

\* One Update call, with criteria of any shape.
InitCriteria ==
    InitWith({ContainerIds, {"c3"}}, {RetainedUniverse}, {"device01"},
             {[DefaultConfig EXCEPT !.EnableMetrics = FALSE]})

NextCriteria ==
    \/ \E m \in inbox : HandleRegistrationMessage(m)
    \/ requests = 0 /\ Update("u1", Criteria)
    \/ WorkerTakesUpdate("u1")
    \/ \E p \in PassIds : GetEntities(p)
    \/ \E p \in PassIds : RecordExisting(p)
    \/ \E p \in PassIds : ListContainers(p)
    \/ \E p \in PassIds : RegisterContainers(p)
    \/ \E p \in PassIds : PublishHealth(p)
    \/ \E p \in PassIds : PublishTwin(p)
    \/ \E p \in PassIds : UpdateMetrics(p)
    \/ \E p \in PassIds : SkipStaleServices(p)
    \/ \E p \in PassIds : RemoveStaleServices(p)
    \/ \E p \in PassIds : DeleteFromCloud(p)
    \/ \E p \in PassIds : WorkerSpawnsResult(p)
    \/ \E r \in results : ResultDelivered(r, "u1")

SpecCriteria == InitCriteria /\ [][NextCriteria]_vars

\* The entity store on its own: the broker delivers registration messages
\* to the connected client, with no pass running.
InitStore ==
    InitWith({{}}, SUBSET RetainedUniverse, {"device01"},
             {[DefaultConfig EXCEPT !.EnableMetrics = FALSE]})

NextStore ==
    \/ \E m \in StoreMessages : BrokerDelivers(m)
    \/ \E m \in inbox : HandleRegistrationMessage(m)

SpecStore == InitStore /\ [][NextStore]_vars

\* One caller at a time with the deletion from the cloud switched off
\* (--delete-from-cloud=false).
InitCloudOff ==
    InitWith(SUBSET ContainerIds, SUBSET RetainedUniverse, {"", "device01"},
             {c \in Configs : ~c.DeleteFromCloud /\ ~c.EnableMetrics})

SpecCloudOff == InitCloudOff /\ [][NextPass]_vars

\* A service that is no container is registered on the device under the name
\* one of the containers has.
ForeignRegistration == [t |-> Topic(<<"a">>), payload |-> ServiceType]

InitForeign ==
    InitWith(SUBSET ContainerIds,
             {{ForeignRegistration} \cup R : R \in SUBSET {r \in RetainedUniverse : r.t # ForeignRegistration.t}},
             {"device01"}, {[DefaultConfig EXCEPT !.EnableMetrics = FALSE]})

SpecForeign == InitForeign /\ [][NextPass]_vars

\* Criteria GetFilterOptions can return from the configuration, each of which
\* keeps the compose containers out: by type, by display name, by label.
ConfiguredFilters ==
    {[EmptyFilter EXCEPT !.Types = {ContainerType}],
     [EmptyFilter EXCEPT !.ExcludeNames = {<<"p", "@", "b">>}],
     [EmptyFilter EXCEPT !.ExcludeWithLabel = {ComposeProjectLabel}]}

\* The running monitor after the first Update of the run command with such
\* criteria: the container a is registered, the compose container is not.
InitExclude ==
    InitWith({{"c1", "c2"}}, {{r \in RetainedUniverse : r.t = Topic(<<"a">>)}}, {"device01"},
             {[DefaultConfig EXCEPT !.EnableMetrics = FALSE]})

SpecExclude == InitExclude /\ [][NextMonitor]_vars

\* The run command from its Update call to its return, in either mode.
InitRun ==
    InitWith({{"c1", "c2"}}, {RetainedUniverse}, {"device01"},
             {[DefaultConfig EXCEPT !.EnableMetrics = FALSE]})

\* The steps of one pass of the worker.
PassStep ==
    \E p \in PassIds :
        \/ GetEntities(p)
        \/ RecordExisting(p)
        \/ ListContainers(p)
        \/ RegisterContainers(p)
        \/ PublishHealth(p)
        \/ PublishTwin(p)
        \/ UpdateMetrics(p)
        \/ SkipStaleServices(p)
        \/ RemoveStaleServices(p)
        \/ DeleteFromCloud(p)

\* The goroutines of the run: the worker, the result senders, the message
\* handlers, Monitor, and RunE with its Stop.
WorkerStep ==
    \/ \E u \in {"u1", MonitorCaller} : WorkerTakesUpdate(u)
    \/ PassStep
    \/ \E p \in PassIds : WorkerSpawnsResult(p)
    \/ WorkerTakesShutdown
    \/ WorkerExits

ResultStep == \E r \in results, u \in {"u1", MonitorCaller} : ResultDelivered(r, u)

HandlerStep == \E m \in inbox : HandleRegistrationMessage(m)

MonitorStep == MonitorUpdateReturned \/ MonitorReturns

RunStep ==
    \/ RunOnceUpdateReturned
    \/ RunStartsMonitor
    \/ StopDisconnects
    \/ StopReturns
    \/ RunReturns

NextRun ==
    \/ \E once \in BOOLEAN : RunUpdate(once)
    \/ RunSignalled
    \/ \E evt \in EngineEvents : MonitorReceivesEvent(evt)
    \/ MonitorReceivesError
    \/ WorkerStep
    \/ ResultStep
    \/ HandlerStep
    \/ MonitorStep
    \/ RunStep

\* Every goroutine that can take a step takes one in the end; what the
\* engine and the operator do is left open.
SpecRun ==
    /\ InitRun /\ [][NextRun]_vars
    /\ WF_vars(WorkerStep) /\ WF_vars(ResultStep) /\ WF_vars(HandlerStep)
    /\ WF_vars(MonitorStep) /\ WF_vars(RunStep)

\* One Update call on an engine that holds, next to others, the container
\* with the hand-made compose labels.
InitNames ==
    InitWith({E \cup {"c4"} : E \in SUBSET ContainerIds}, {RetainedUniverse}, {"device01"},
             {[DefaultConfig EXCEPT !.EnableMetrics = FALSE]})

SpecNames == InitNames /\ [][NextCriteria]_vars

\* The steps of the worker goroutine, of the goroutines that send a result,
\* of the goroutines of the registration route and of the caller of Stop.
AppWorkerStep ==
    \/ \E u \in Callers : WorkerTakesUpdate(u)
    \/ WorkerTakesHealthCheck
    \/ PassStep
    \/ \E p \in PassIds : WorkerSpawnsResult(p)
    \/ WorkerTakesShutdown
    \/ WorkerExits

AppResultStep == \E r \in results, u \in Callers : ResultDelivered(r, u)

AppStopStep == StopDisconnects \/ StopReturns

\* The whole program with its scheduling: a goroutine that can take a step
\* takes one in the end; when Update, Stop and the health-check command are
\* called is left open.
SpecLive ==
    /\ Init /\ [][Next]_vars
    /\ WF_vars(AppWorkerStep)
    /\ WF_vars(AppResultStep)
    /\ WF_vars(HandlerStep)
    /\ WF_vars(AppStopStep)

\* ------------------------------------------------------------------ NewApp

NewAppVarsUnchanged ==
    UNCHANGED <<engine, Entities, inbox, connected, passes, nextPass, callers, results,
                healthSenders, stop, requests, faults, monitor, config, delivered>>

\* What User.GetCurrentUser can answer: an error, or the name of the device
\* user, which is "device_" followed by the external id.
LookupAnswers == {<<"error">>, <<"device_", "device01">>, <<"device_">>}

\* strings.TrimPrefix(currentUser.Username, "device_")
TrimDevicePrefix(username) ==
    LET rest == IF Len(username) > 0 /\ username[1] = "device_" THEN Tail(username)
                ELSE username
    IN  IF rest = <<>> THEN "" ELSE rest[1]

\* A NewApp that would go on without the identity after a failed lookup.
AfterFailedLookupGoesOn == "startWorker"

\* "retry until it is successful": time.Sleep(10 * time.Second) and the
\* next turn of the loop.
AfterFailedLookup == "sleep"

\* "if tedgeClient.Target.CloudIdentity == "" { for { ... } }": with the
\* identity given NewApp makes no lookup.
NewAppIdentityGiven ==
    /\ cmd.pc = "identity"
    /\ cmd' = [cmd EXCEPT !.pc = IF cloudIdentity = "" THEN "lookup" ELSE "startWorker"]
    /\ UNCHANGED <<cloudIdentity, wpc>>
    /\ NewAppVarsUnchanged

\* One turn of the loop: GetCurrentUser answers.
NewAppLookup(answer) ==
    /\ cmd.pc = "lookup"
    /\ IF answer = <<"error">>
       THEN /\ cmd.lookups < MaxLookups
            /\ cmd' = [cmd EXCEPT !.pc = AfterFailedLookup, !.lookups = @ + 1]
            /\ UNCHANGED cloudIdentity
       ELSE /\ cloudIdentity' = TrimDevicePrefix(answer)
            /\ cmd' = [cmd EXCEPT !.pc = "startWorker", !.found = TRUE]
    /\ UNCHANGED wpc
    /\ NewAppVarsUnchanged

\* The sleep is over.
NewAppSleeps ==
    /\ cmd.pc = "sleep"
    /\ cmd' = [cmd EXCEPT !.pc = "lookup"]
    /\ UNCHANGED <<cloudIdentity, wpc>>
    /\ NewAppVarsUnchanged

\* "application.wg.Add(1); go application.worker(); return application, nil"
NewAppStartsWorker ==
    /\ cmd.pc = "startWorker"
    /\ wpc' = "select"
    /\ cmd' = [cmd EXCEPT !.pc = "none"]
    /\ UNCHANGED cloudIdentity
    /\ NewAppVarsUnchanged

\* RunE at its call of app.NewApp, the client connected: the device id of
\* the configuration is known or not, no worker runs yet.
InitNewApp ==
    /\ engine = {"c1", "c2"}
    /\ Entities = StoreOf(RetainedUniverse)
    /\ inbox = {}
    /\ connected = TRUE
    /\ cloudIdentity \in {"", "device01"}
    /\ wpc = "notStarted"
    /\ passes = [p \in PassIds |-> NoPass]
    /\ nextPass = 1
    /\ callers = [u \in Callers \cup {MonitorCaller} |-> IdleCaller]
    /\ results = {}
    /\ healthSenders = {}
    /\ stop = [pc |-> "idle", clean |-> FALSE]
    /\ requests = 0
    /\ faults = 0
    /\ monitor = NoMonitor
    /\ config = [DefaultConfig EXCEPT !.EnableMetrics = FALSE]
    /\ cmd = [NoCommand EXCEPT !.pc = "identity"]
    /\ delivered = <<>>

NextNewApp ==
    \/ NewAppIdentityGiven
    \/ \E answer \in LookupAnswers : NewAppLookup(answer)
    \/ NewAppSleeps
    \/ NewAppStartsWorker
    \/ NextRun

SpecNewApp == InitNewApp /\ [][NextNewApp]_vars

\* ----------------------------------------------------------------- install

\* InstallCommand.RunE runs in a process of its own, with no App: cmd is its
\* position, the calls it has made to the engine, the image it refers to,
\* and what it returns.
InstallVarsUnchanged ==
    UNCHANGED <<engine, Entities, inbox, connected, cloudIdentity, wpc, passes, nextPass,
                callers, results, healthSenders, stop, requests, faults, monitor, config,
                delivered>>

\* The install command at its first statement: --file is given or not.
InstallCommand(file) ==
    [pc |-> "newClient", file |-> file, imageRef |-> "module-version", calls |-> <<>>,
     failed |-> "none", result |-> "none", created |-> FALSE, started |-> FALSE]

\* "b, err := io.ReadAll(imageResp.Body); if err != nil { return nil }"
ReadFailureReturns == "nil"

\* The command after one of its calls: the call failed and RunE returns
\* what, or it succeeded and RunE goes on at next.
AfterCall(call, ok, what, next) ==
    IF ok
    THEN [cmd EXCEPT !.pc = next, !.calls = Append(@, call)]
    ELSE [cmd EXCEPT !.pc = "returned", !.calls = Append(@, call),
                     !.failed = call, !.result = what]

\* container.NewContainerClient()
InstallNewClient(ok) ==
    /\ cmd.pc = "newClient"
    /\ cmd' = AfterCall("NewContainerClient", ok, "err",
                        IF cmd.file THEN "openFile" ELSE "networkInspect")
    /\ InstallVarsUnchanged

\* os.Open(c.File)
InstallOpenFile(ok) ==
    /\ cmd.pc = "openFile"
    /\ cmd' = AfterCall("Open", ok, "err", "imageLoad")
    /\ InstallVarsUnchanged

\* cli.Client.ImageLoad: the response is JSON or not.
InstallImageLoad(ok, json) ==
    /\ cmd.pc = "imageLoad"
    /\ cmd' = AfterCall("ImageLoad", ok, "err",
                        IF json THEN "readResponse" ELSE "networkInspect")
    /\ InstallVarsUnchanged

\* io.ReadAll(imageResp.Body)
InstallReadResponse(ok) ==
    /\ cmd.pc = "readResponse"
    /\ cmd' = AfterCall("ReadAll", ok, ReadFailureReturns, "unmarshal")
    /\ InstallVarsUnchanged

\* json.Unmarshal of the response; a stream that starts with "Loaded image: "
\* names the image to use.
InstallUnmarshal(ok, named) ==
    /\ cmd.pc = "unmarshal"
    /\ cmd' = [AfterCall("Unmarshal", ok, "err", "networkInspect") EXCEPT
                  !.imageRef = IF ok /\ named THEN "loaded-image" ELSE @]
    /\ InstallVarsUnchanged

\* cli.Client.NetworkInspect: the network exists, does not exist, or the
\* call fails otherwise.
InstallNetworkInspect(outcome) ==
    /\ cmd.pc = "networkInspect"
    /\ cmd' = AfterCall("NetworkInspect", outcome # "error", "err",
                        IF outcome = "notFound" THEN "networkCreate" ELSE "imageList")
    /\ InstallVarsUnchanged

\* cli.Client.NetworkCreate
InstallNetworkCreate(ok) ==
    /\ cmd.pc = "networkCreate"
    /\ cmd' = AfterCall("NetworkCreate", ok, "err", "imageList")
    /\ InstallVarsUnchanged

\* cli.Client.ImageList: the image is there, is not, or the call fails.
InstallImageList(outcome) ==
    /\ cmd.pc = "imageList"
    /\ cmd' = AfterCall("ImageList", outcome # "error", "err",
                        IF outcome = "absent" THEN "imagePull" ELSE "stopRemove")
    /\ InstallVarsUnchanged

\* cli.Client.ImagePull
InstallImagePull(ok) ==
    /\ cmd.pc = "imagePull"
    /\ cmd' = AfterCall("ImagePull", ok, "err", "stopRemove")
    /\ InstallVarsUnchanged

\* cli.StopRemoveContainer(ctx, containerName)
InstallStopRemove(ok) ==
    /\ cmd.pc = "stopRemove"
    /\ cmd' = AfterCall("StopRemoveContainer", ok, "err", "create")
    /\ InstallVarsUnchanged

\* cli.Client.ContainerCreate
InstallCreate(ok) ==
    /\ cmd.pc = "create"
    /\ cmd' = [AfterCall("ContainerCreate", ok, "err", "start") EXCEPT !.created = ok]
    /\ InstallVarsUnchanged

\* cli.Client.ContainerStart, and "return nil" after it.
InstallStart(ok) ==
    /\ cmd.pc = "start"
    /\ cmd' = [AfterCall("ContainerStart", ok, "err", "returned") EXCEPT
                  !.started = ok, !.result = IF ok THEN "nil" ELSE "err"]
    /\ InstallVarsUnchanged

InitInstall ==
    /\ engine = {}
    /\ Entities = StoreOf({})
    /\ inbox = {}
    /\ connected = FALSE
    /\ cloudIdentity = ""
    /\ wpc = "notStarted"
    /\ passes = [p \in PassIds |-> NoPass]
    /\ nextPass = 1
    /\ callers = [u \in Callers \cup {MonitorCaller} |-> IdleCaller]
    /\ results = {}
    /\ healthSenders = {}
    /\ stop = [pc |-> "idle", clean |-> FALSE]
    /\ requests = 0
    /\ faults = 0
    /\ monitor = NoMonitor
    /\ config = DefaultConfig
    /\ \E file \in BOOLEAN : cmd = InstallCommand(file)
    /\ delivered = <<>>

NextInstall ==
    \/ \E ok \in BOOLEAN : InstallNewClient(ok)
    \/ \E ok \in BOOLEAN : InstallOpenFile(ok)
    \/ \E ok, json \in BOOLEAN : InstallImageLoad(ok, json)
    \/ \E ok \in BOOLEAN : InstallReadResponse(ok)
    \/ \E ok, named \in BOOLEAN : InstallUnmarshal(ok, named)
    \/ \E outcome \in {"found", "notFound", "error"} : InstallNetworkInspect(outcome)
    \/ \E ok \in BOOLEAN : InstallNetworkCreate(ok)
    \/ \E outcome \in {"present", "absent", "error"} : InstallImageList(outcome)
    \/ \E ok \in BOOLEAN : InstallImagePull(ok)
    \/ \E ok \in BOOLEAN : InstallStopRemove(ok)
    \/ \E ok \in BOOLEAN : InstallCreate(ok)
    \/ \E ok \in BOOLEAN : InstallStart(ok)

SpecInstall == InitInstall /\ [][NextInstall]_vars

\* ------------------------------------------------------------- properties

\* doUpdate is executing for request p.
Running(p) ==
    passes[p].pc \in {"getEntities", "existing", "list", "register", "health", "twin",
                      "metrics", "stale", "cloud"}

\* Request p has been taken by the worker.
Started(p) == passes[p].pc # "none"

HasIncludeFilter(fo) == fo.Names # {} \/ fo.Labels # {} \/ fo.IDs # {}

\* An empty retained message: what clears a retained topic.
IsClear(e) == e.k \in {"reg", "health", "twin"} /\ e.payload = "" /\ e.retained

IsCloudCall(e) == e.k \in {"lookup", "delete"}

\* The topics of the items the pass listed.
ItemTopics(p) == {Topic(passes[p].items[i].Name) : i \in DOMAIN passes[p].items}

\* The entities of the pass's known set that no listed item matches.
StaleOf(p) == passes[p].known \ ItemTopics(p)

\* The successful clears of channel k of entity t in the pass's log.
Clears(p, t, k) ==
    {i \in DOMAIN passes[p].log :
        LET e == passes[p].log[i] IN IsClear(e) /\ e.t = t /\ e.k = k /\ e.ok}

\* doUpdate has run to its end for p, past the listing.
Completed(p) == passes[p].pc = "returned" /\ passes[p].err # "list"

\* C1: at any time at most one execution of doUpdate is in progress, whatever
\* triggers are waiting.
C1_AtMostOnePassRunning ==
    Cardinality({p \in PassIds : Running(p)}) <= 1

C1_Witness ==
    /\ \E p \in PassIds : passes[p].pc = "stale"
    /\ \E u \in Callers : callers[u].pc = "send"

\* C2: a pass whose criteria hold a name, label or id include-filter publishes
\* no empty retained message and makes no cloud call.
C2_FilteredPassRemovesNothing ==
    \A p \in PassIds :
        HasIncludeFilter(passes[p].opts) =>
            \A i \in DOMAIN passes[p].log :
                ~IsClear(passes[p].log[i]) /\ ~IsCloudCall(passes[p].log[i])

C2_Witness ==
    \E p \in PassIds :
        /\ Completed(p)
        /\ passes[p].opts.IDs # {}
        /\ StaleOf(p) # {}
        /\ passes[p].log # <<>>

NoClearFailed(p) ==
    \A i \in DOMAIN passes[p].log : IsClear(passes[p].log[i]) => passes[p].log[i].ok

IsRegistration(e) == e.k = "reg" /\ e.payload # ""

\* C4 as claimed: a pass that follows another publishes no registration
\* message to a topic that is in the known set it read.
C4_SecondPassSkipsRegistered ==
    \A p \in PassIds :
        p > 1 =>
            \A i \in DOMAIN passes[p].log :
                IsRegistration(passes[p].log[i]) => passes[p].log[i].t \notin passes[p].known

Rank(k) == CASE k = "twin" -> 1 [] k = "health" -> 2 [] k = "reg" -> 3 [] OTHER -> 0

\* C5: for every stale entity the clear of the twin topic comes before the
\* clear of the health topic, which comes before the clear of the
\* registration topic.
C5_ClearOrder ==
    \A p \in PassIds : \A i, j \in DOMAIN passes[p].log :
        LET a == passes[p].log[i]
            b == passes[p].log[j]
        IN  (IsClear(a) /\ IsClear(b) /\ a.t = b.t /\ Rank(a.k) < Rank(b.k)) => i < j

C5_Witness ==
    \E p \in PassIds : \E t \in StaleOf(p) :
        /\ Completed(p)
        /\ \A k \in {"twin", "health", "reg"} : Clears(p, t, k) # {}

\* The non-empty retained publishes of channel k to entity topic t in the log.
Updates(p, t, k) ==
    {i \in DOMAIN passes[p].log :
        LET e == passes[p].log[i]
        IN  e.t = t /\ e.k = k /\ e.payload # "" /\ e.retained}

\* The pass has gone through its three publish loops.
PublishedAll(p) == passes[p].pc \in {"metrics", "stale", "cloud"} \/ Completed(p)

\* C6: an item with no matching entity gets a registration message, then a
\* health message, then a twin message, all retained, and no health or twin
\* message of a pass comes before a registration message to the same entity.
C6_RegistrationHealthTwinOrder ==
    \A p \in PassIds :
        /\ PublishedAll(p) =>
              \A t \in ItemTopics(p) \ passes[p].known :
                  \E r \in Updates(p, t, "reg") : \E h \in Updates(p, t, "health") :
                  \E w \in Updates(p, t, "twin") : r < h /\ h < w
        /\ \A i, j \in DOMAIN passes[p].log :
              LET a == passes[p].log[i]
                  b == passes[p].log[j]
              IN  (IsRegistration(a) /\ b.k \in {"health", "twin"} /\ ~IsClear(b) /\ a.t = b.t)
                      => (i < j /\ a.retained /\ b.retained)

C6_Witness ==
    \E p \in PassIds :
        /\ Completed(p)
        /\ Cardinality(ItemTopics(p) \ passes[p].known) = 2
        /\ \A i \in DOMAIN passes[p].log : passes[p].log[i].ok

\* C7 as claimed: an Update call returns the result of the pass run for its
\* own request, after that pass has ended.
C7_UpdateReturnsOwnResult ==
    \A u \in Callers :
        callers[u].pc = "returned" =>
            /\ callers[u].got = callers[u].req
            /\ passes[callers[u].req].pc = "finished"

\* C8 as claimed: no pass begins while the result of an earlier pass waits
\* to be delivered.
C8_NoPassBeforeEarlierResultDelivered ==
    \A p \in PassIds : \A r \in results :
        Started(p) => r.pass >= p

\* C8 amended: the pass of a later request does not begin, and its caller
\* stays blocked on the request channel, until every earlier pass has ended
\* and the worker is back at its select.
C8_NoPassBeforeEarlierPassEnded ==
    /\ \A p, q \in PassIds : (p < q /\ Started(q)) => passes[p].pc = "finished"
    /\ \A u \in Callers :
          callers[u].pc = "recv" => Started(callers[u].req)

C8_Witness ==
    \E p, q \in PassIds :
        /\ p < q /\ Running(q)
        /\ \E r \in results : r.pass = p
        /\ \E u \in Callers : callers[u].pc = "recv" /\ callers[u].req = q

\* No execution of doUpdate is under way.
NoPassInFlight == \A p \in PassIds : passes[p].pc \in {"none", "finished"}

\* C9: the worker leaves its loop only between passes, Stop returns only
\* after the worker has ended, and from then on no pass is in flight.
C9_StopWaitsForWorker ==
    /\ wpc \in {"exiting", "done"} => NoPassInFlight
    /\ stop.pc = "returned" => (wpc = "done" /\ NoPassInFlight)

C9_Witness ==
    /\ stop.pc = "returned"
    /\ passes[1].pc = "finished"
    /\ \E u \in Callers : callers[u].pc = "send"

\* C10 as claimed: the client is disconnected only after the worker has
\* ended, so never while a pass is in flight.
C10_DisconnectOnlyAfterWorkerEnded ==
    ~connected => (wpc = "done" /\ NoPassInFlight)

\* The pass that runs for the request Monitor is waiting on.
MonitorPass == callers[MonitorCaller].req

\* Monitor is inside the a.Update call it made for a container event.
MonitorInUpdate(actions) ==
    /\ monitor.pc = "update"
    /\ monitor.evt.Type = "container"
    /\ monitor.evt.Action \in actions

\* The request of Monitor's call has been taken and its pass has not ended.
MonitorPassRunning ==
    callers[MonitorCaller].pc = "recv" /\ Running(MonitorPass)

\* Passes begun or asked for, against the events that ask for one.
OnePassForEveryTrigger ==
    /\ requests = monitor.targeted + monitor.full
    /\ (nextPass - 1) + (IF callers[MonitorCaller].pc = "send" THEN 1 ELSE 0) = requests
    /\ monitor.pc = "update" => monitor.evt.Action \in TargetedActions \cup FullScanActions

\* C11: for a start, stop, pause or unpause event Monitor asks for one pass,
\* with criteria that hold the event's container id and nothing else, and
\* that pass removes no stale service: it clears no topic, calls no cloud.
C11_TargetedPassOnStartStop ==
    /\ OnePassForEveryTrigger
    /\ MonitorInUpdate(TargetedActions) =>
          LET byId == [EmptyFilter EXCEPT !.IDs = {monitor.evt.ID}]
          IN  /\ callers[MonitorCaller].pc = "send" => callers[MonitorCaller].opts = byId
              /\ MonitorPassRunning =>
                    /\ passes[MonitorPass].opts = byId
                    /\ ~passes[MonitorPass].removeStale
                    /\ passes[MonitorPass].marked = <<>>
                    /\ \A i \in DOMAIN passes[MonitorPass].log :
                          ~IsClear(passes[MonitorPass].log[i])
                          /\ ~IsCloudCall(passes[MonitorPass].log[i])

C11_Witness ==
    /\ MonitorInUpdate({"stop"})
    /\ monitor.evt.ID = "c2"
    /\ callers[MonitorCaller].pc = "recv"
    /\ Completed(MonitorPass)
    /\ StaleOf(MonitorPass) # {}
    /\ passes[MonitorPass].log # <<>>
    /\ monitor.targeted = 2

\* C12: for a destroy or remove event Monitor asks for one pass with empty
\* criteria, which removes stale services; a create event asks for none.
C12_FullPassOnDestroyNoneOnCreate ==
    /\ OnePassForEveryTrigger
    /\ MonitorInUpdate(FullScanActions) =>
          /\ callers[MonitorCaller].pc = "send" => callers[MonitorCaller].opts = EmptyFilter
          /\ MonitorPassRunning =>
                /\ passes[MonitorPass].opts = EmptyFilter
                /\ passes[MonitorPass].pc \notin {"getEntities"} => passes[MonitorPass].removeStale
    /\ monitor.evt.Action = "create" =>
          /\ monitor.pc # "update"
          /\ callers[MonitorCaller].pc \notin {"send", "recv", "returned"}

C12_Witness ==
    /\ MonitorInUpdate({"destroy"})
    /\ monitor.evt.ID = "c1"
    /\ callers[MonitorCaller].pc = "recv"
    /\ Completed(MonitorPass)
    /\ Clears(MonitorPass, Topic(<<"a">>), "reg") # {}
    /\ monitor.received = 2 /\ monitor.full = 1 /\ monitor.targeted = 0 /\ monitor.errors = 0

\* C13: a pass whose listing failed has returned that error, having
\* published nothing, marked nothing for deletion and called no cloud; the
\* error is what the worker hands on as the result.  (The read of the entity
\* store has no way to fail.)
C13_ListErrorEndsPassEmptyHanded ==
    /\ \A p \in PassIds :
          passes[p].err = "list" =>
              /\ passes[p].pc \in {"returned", "finished"}
              /\ passes[p].log = <<>>
              /\ passes[p].marked = <<>>
    /\ \A r \in results : r.err = passes[r.pass].err

C13_Witness ==
    \E p \in PassIds :
        /\ passes[p].pc = "returned" /\ passes[p].err = "list"
        /\ ~HasIncludeFilter(passes[p].opts)
        /\ passes[p].known # {}
        /\ engine # {}
        /\ inbox = {}

\* A publish or stats read for an observed item that failed.
ItemFailures(p) ==
    {i \in DOMAIN passes[p].log : ~passes[p].log[i].ok /\ ~IsClear(passes[p].log[i])
                                   /\ ~IsCloudCall(passes[p].log[i])}

\* C14: whatever publish or stats read for an item fails, every listed item
\* has its health and its twin publish attempted, a full pass goes on to
\* clear the stale entities, and the pass returns no error for it.
C14_ItemFailuresDoNotStopPass ==
    \A p \in PassIds :
        /\ PublishedAll(p) =>
              /\ \A t \in ItemTopics(p) :
                    Updates(p, t, "health") # {} /\ Updates(p, t, "twin") # {}
              /\ Cardinality(UNION {Updates(p, t, "health") : t \in ItemTopics(p)})
                    = Len(passes[p].items)
              /\ Cardinality(UNION {Updates(p, t, "twin") : t \in ItemTopics(p)})
                    = Len(passes[p].items)
        /\ (Completed(p) /\ ~HasIncludeFilter(passes[p].opts)) =>
              /\ StaleOf(p) # {} => \E i \in DOMAIN passes[p].log : IsClear(passes[p].log[i])
              /\ NoClearFailed(p) => \A t \in StaleOf(p) : Clears(p, t, "reg") # {}
        /\ (Completed(p) /\ NoClearFailed(p)) => passes[p].err = "nil"

C14_Witness ==
    \E p \in PassIds :
        /\ Completed(p) /\ ~HasIncludeFilter(passes[p].opts)
        /\ Len(passes[p].items) >= 2
        /\ \E i \in ItemFailures(p) : passes[p].log[i].k = "reg"
        /\ StaleOf(p) # {}
        /\ \A t \in StaleOf(p) : Clears(p, t, "reg") # {}
        /\ passes[p].err = "nil"

\* The failed clears of a twin topic in the pass's log.
FailedTwinClears(p) ==
    {i \in DOMAIN passes[p].log :
        LET e == passes[p].log[i] IN IsClear(e) /\ e.k = "twin" /\ ~e.ok}

\* C15: a failed clear of a stale entity's twin topic is the last thing the
\* pass does: doUpdate returns the publish error, the entity's health and
\* registration topics are not touched, the entity is not marked for the
\* cloud, and no other stale entity or cloud call follows.
C15_TwinClearFailureEndsPass ==
    \A p \in PassIds :
        /\ \A i \in FailedTwinClears(p) :
              /\ i = Len(passes[p].log)
              /\ passes[p].pc = "returned" /\ passes[p].err = "publish"
              /\ \A j \in DOMAIN passes[p].log :
                    (j # i /\ IsClear(passes[p].log[j])) => passes[p].log[j].t # passes[p].log[i].t
              /\ passes[p].log[i].t \notin Range(passes[p].marked)
              /\ \A j \in DOMAIN passes[p].log : ~IsCloudCall(passes[p].log[j])
        /\ (passes[p].pc = "returned" /\ passes[p].err = "publish") => FailedTwinClears(p) # {}

C15_Witness ==
    \E p \in PassIds :
        /\ passes[p].pc = "returned" /\ passes[p].err = "publish"
        /\ Cardinality(StaleOf(p)) = 2
        /\ passes[p].marked = <<>>
        /\ Cardinality({i \in DOMAIN passes[p].log : IsClear(passes[p].log[i])}) = 1

\* C16: every call to the cloud comes after every clear of the pass, in the
\* step that follows the delay; while the pass waits out the delay every
\* stale entity has had its twin clear and its deregistration attempted.
C16_CloudDeletionAfterLocalRemoval ==
    \A p \in PassIds :
        /\ \A i, j \in DOMAIN passes[p].log :
              (IsCloudCall(passes[p].log[i]) /\ IsClear(passes[p].log[j])) => j < i
        /\ \A i \in DOMAIN passes[p].log :
              IsCloudCall(passes[p].log[i]) =>
                  /\ passes[p].pc = "returned"
                  /\ passes[p].log[i].t \in Range(passes[p].marked)
        /\ passes[p].pc = "cloud" =>
              \A t \in StaleOf(p) :
                  /\ t \in Range(passes[p].marked)
                  /\ \E i, j \in DOMAIN passes[p].log :
                        /\ i < j
                        /\ IsClear(passes[p].log[i]) /\ passes[p].log[i].k = "twin"
                        /\ IsClear(passes[p].log[j]) /\ passes[p].log[j].k = "health"
                        /\ passes[p].log[i].t = t /\ passes[p].log[j].t = t

C16_Witness ==
    \E p \in PassIds :
        /\ Completed(p)
        /\ Len(passes[p].marked) = 2
        /\ \A t \in Range(passes[p].marked) :
              \E i \in DOMAIN passes[p].log :
                  passes[p].log[i].k = "delete" /\ passes[p].log[i].t = t

\* C17: with no cloud identity no lookup or delete call is made, and the
\* stale entities are cleared locally all the same.
C17_NoCloudCallWithoutIdentity ==
    \A p \in PassIds :
        /\ (\E i \in DOMAIN passes[p].log : IsCloudCall(passes[p].log[i])) => cloudIdentity # ""
        /\ (cloudIdentity = "" /\ Completed(p) /\ ~HasIncludeFilter(passes[p].opts)
                /\ NoClearFailed(p)) =>
              \A t \in StaleOf(p) : \A k \in {"twin", "health", "reg"} : Clears(p, t, k) # {}

C17_Witness ==
    \E p \in PassIds :
        /\ cloudIdentity = ""
        /\ Completed(p) /\ passes[p].err = "nil"
        /\ Len(passes[p].marked) = 2
        /\ \A t \in Range(passes[p].marked) : Clears(p, t, "reg") # {}

\* C18: a lookup that reports not-found makes DeleteCumulocityManagedObject
\* return no error without a delete call; any other lookup error is
\* returned, again without a delete call; a delete call follows a lookup
\* that found the object, and nothing else.
C18_NotFoundIsSuccess ==
    /\ \A t \in {m.t : m \in RetainedUniverse} :
          LET notFound == DeleteCumulocityManagedObject(t, "notFound")
              failed == DeleteCumulocityManagedObject(t, "lookupError")
          IN  /\ notFound.err = "nil" /\ ~notFound.deleted
              /\ \A i \in DOMAIN notFound.calls : notFound.calls[i].k # "delete"
              /\ failed.err # "nil" /\ ~failed.deleted
              /\ \A i \in DOMAIN failed.calls : failed.calls[i].k # "delete"
    /\ \A p \in PassIds : \A i \in DOMAIN passes[p].log :
          LET e == passes[p].log[i]
          IN  /\ (e.k = "lookup" /\ e.payload # "found" /\ i < Len(passes[p].log)) =>
                    passes[p].log[i + 1].k # "delete"
              /\ e.k = "delete" =>
                    /\ i > 1
                    /\ passes[p].log[i - 1].k = "lookup"
                    /\ passes[p].log[i - 1].payload = "found"
                    /\ passes[p].log[i - 1].t = e.t

C18_Witness ==
    \E p \in PassIds :
        /\ Completed(p) /\ passes[p].err = "nil"
        /\ \E i, j \in DOMAIN passes[p].log :
              /\ passes[p].log[i].k = "lookup" /\ passes[p].log[i].payload = "notFound"
              /\ passes[p].log[j].k = "lookup" /\ passes[p].log[j].payload = "error"
        /\ \A i \in DOMAIN passes[p].log : passes[p].log[i].k # "delete"

\* The pass has decided whether it removes stale services.
Decided(p) == (Running(p) /\ passes[p].pc # "getEntities") \/ passes[p].pc = "returned"

C20_ErrorsDoNotEndMonitor ==
    /\ monitor.pc = "returned" => monitor.ctxDone
    /\ (monitor.errors > 0 /\ ~monitor.ctxDone) => monitor.pc \in {"select", "update"}

C20_Witness ==
    /\ monitor.errors = 1
    /\ MonitorInUpdate({"start"})
    /\ ~monitor.ctxDone

\* C21 as claimed: once the context of Monitor is cancelled Monitor returns
\* in the end, also when it is inside a.Update at that moment and Stop
\* follows the cancel.
C21_CancelledMonitorReturns ==
    monitor.ctxDone ~> (monitor.pc = "returned")

\* C22: Monitor publishes one message, not retained, for an event once it
\* has handled it, when forwarding is enabled and the action has a text, and
\* none otherwise; whatever the setting, the events that ask for a pass are
\* the ones that get a request.
C22_OneNotificationForKnownActions ==
    LET e == monitor.evt
        handled == monitor.pc \in {"select", "returned"} /\ e # NoEvent
        forwarded == /\ config.EnableEngineEvents
                     /\ e.Type = "container"
                     /\ e.Action \in ContainerEventText
    IN  /\ Len(monitor.published) <= 1
        /\ handled => (Len(monitor.published) = 1 <=> forwarded)
        /\ monitor.pc = "update" => monitor.published = <<>>
        /\ \A i \in DOMAIN monitor.published :
              /\ ~monitor.published[i].retained
              /\ monitor.published[i].k = "e"
              /\ monitor.published[i].payload = e.Action
        /\ requests = monitor.targeted + monitor.full

C22_Witness ==
    /\ config.EnableEngineEvents
    /\ monitor.pc = "select"
    /\ monitor.evt.Action = "stop"
    /\ Len(monitor.published) = 1
    /\ monitor.received = 2 /\ monitor.targeted = 1 /\ monitor.full = 0 /\ monitor.errors = 0
    /\ passes[1].pc = "finished"

\* C23: in run-once mode RunE returns the error of the pass of its one Update
\* call and starts no monitor; in long-running mode it starts the monitor
\* whatever that pass returned, calls Stop only once the signal has cancelled
\* the context, and returns nil.
C23_RunOnceReturnsErrorLongRunningGoesOn ==
    /\ (cmd.once /\ cmd.pc \in {"stop", "returned"}) =>
          /\ cmd.result = passes[1].err
          /\ passes[1].pc = "finished"
          /\ requests = 1
          /\ monitor.pc = "none"
          /\ stop.clean
    /\ (~cmd.once /\ cmd.pc \in {"wait", "stop", "returned"}) =>
          /\ monitor.pc # "none"
          /\ stop.pc # "idle" => (monitor.ctxDone /\ ~stop.clean)
          /\ cmd.pc = "wait" => (stop.pc = "idle" /\ ~monitor.ctxDone)
          /\ cmd.pc = "returned" => cmd.result = "nil"

C23_Witness ==
    /\ ~cmd.once /\ cmd.pc = "wait"
    /\ callers["u1"].err = "list"
    /\ monitor.evt.Action = "start"
    /\ MonitorPassRunning

\* The name and type the claim gives an item, from what the engine lists.
ClaimedName(raw) ==
    IF ComposeProjectLabel \in DOMAIN raw.Labels
    THEN (IF raw.Labels[ComposeProjectLabel] = "" THEN <<>>
          ELSE <<raw.Labels[ComposeProjectLabel]>>)
         \o <<"@">>
         \o (IF ComposeServiceLabel \in DOMAIN raw.Labels /\ raw.Labels[ComposeServiceLabel] # ""
             THEN <<raw.Labels[ComposeServiceLabel]>> ELSE <<>>)
    ELSE Tail(raw.Names[1])

ClaimedType(raw) ==
    IF ComposeProjectLabel \in DOMAIN raw.Labels THEN "container-group" ELSE "container"

\* C24 as claimed: every listed item that carries the compose-project label
\* is named "<project>@<service>" and typed container-group, every other
\* item has its container name without the leading "/" and is typed
\* container.
C24_NameAndTypeFromComposeLabel ==
    \A p \in PassIds : \A i \in DOMAIN passes[p].items :
        LET item == passes[p].items[i]
            raw == EngineContainer(item.Container.Id)
        IN  item.Name = ClaimedName(raw) /\ item.ServiceType = ClaimedType(raw)

\* The topics a pass sent a registration message to, and the topics of the
\* listed items it found in the known set.
ToRegister(p) ==
    {passes[p].log[i].t : i \in {j \in DOMAIN passes[p].log : IsRegistration(passes[p].log[j])}}

ToUpdate(p) == ItemTopics(p) \cap passes[p].known

\* C25 as claimed: in every pass the topics that receive a registration
\* publish and the topics matched to an already-registered entity are
\* disjoint.
C25_RegisterAndUpdateDisjoint ==
    \A p \in PassIds : ToRegister(p) \cap ToUpdate(p) = {}

\* C26: no pass publishes an empty retained message to the registration,
\* health or twin topic of an entity whose declared type is neither container
\* nor container-group: every topic a pass clears was read from the store with
\* one of the two container types, and the monitor's own service entity is
\* never among them.
C26_OnlyContainerEntitiesCleared ==
    \A p \in PassIds : \A i \in DOMAIN passes[p].log :
        LET e == passes[p].log[i]
        IN  IsClear(e) =>
                /\ e.t \in passes[p].known
                /\ e.t # OwnRegistration.t
                /\ e.t \in DOMAIN Entities =>
                       Entities[e.t] \in {ContainerType, ContainerGroupType}

C26_Witness ==
    \E p \in PassIds :
        /\ Completed(p)
        /\ passes[p].items = <<>>
        /\ passes[p].known = {m.t : m \in RetainedUniverse}
        /\ \A t \in passes[p].known : \A k \in {"twin", "health", "reg"} : Clears(p, t, k) # {}
        /\ OwnRegistration.t \in DOMAIN Entities
        /\ Entities[OwnRegistration.t] = ServiceType

\* The publishes and cloud calls of kind k the pass attempted for entity t,
\* failed ones included.
Attempts(p, t, k) ==
    {i \in DOMAIN passes[p].log : passes[p].log[i].t = t /\ passes[p].log[i].k = k
                                   /\ (IsCloudCall(passes[p].log[i]) \/ passes[p].log[i].payload = "")}

C28_GetEntitiesReturnsSnapshot ==
    [][\A p \in PassIds :
          (passes[p].pc = "existing" /\ passes'[p].pc = "existing") =>
              ReturnedEntities' = ReturnedEntities]_vars

\* The messages delivered on topic t, in the order of their delivery.
DeliveredOn(t) == SelectSeq(delivered, LAMBDA m : m.t = t)

\* C29 as claimed: once every message delivered on a topic has been handled,
\* the topic is in the store exactly when the last message delivered on it
\* was a registration and not a clear.
C29_StoreFollowsDeliveryOrder ==
    \A t \in {m.t : m \in StoreMessages} :
        LET on == DeliveredOn(t)
        IN  (on # <<>> /\ \A m \in inbox : m.t # t) =>
                (t \in DOMAIN Entities <=> on[Len(on)].payload # "")

\* C30: the worker is held up by a running pass and by nothing else: with
\* no pass in flight it is at its select, or has left its loop on the
\* shutdown signal, whatever results are waiting for a receiver.
C30_WorkerNeverBlocksOnResult ==
    NoPassInFlight => wpc \in {"select", "exiting", "done"}

C30_Witness ==
    \E r \in results : \E p \in PassIds :
        /\ p > r.pass
        /\ Running(p)
        /\ \A u \in DOMAIN callers : callers[u].pc # "recv"

\* C31 as claimed: the result of every pass is received in the end by the
\* Update call that asked for the pass, so no goroutine stays at its send on
\* updateResults.
C31_EveryResultReachesItsCaller ==
    \A p \in PassIds :
        (\E r \in results : r.pass = p)
            ~> (\E u \in Callers : callers[u].pc = "returned" /\ callers[u].req = p
                                     /\ callers[u].got = p)

\* C32 as claimed: an Update call that has sent or is about to send its
\* request returns in the end, also when Stop is called meanwhile or the
\* worker has left its loop.
C32_EveryUpdateReturns ==
    \A u \in Callers :
        (callers[u].pc \in {"send", "recv"}) ~> (callers[u].pc = "returned")

\* C33 as claimed: a pass makes a delete call to the cloud for an entity
\* only if its clears of the entity's health and registration topics both
\* succeeded.
C33_CloudDeletionOnlyAfterDeregistration ==
    \A p \in PassIds : \A i \in DOMAIN passes[p].log :
        passes[p].log[i].k = "delete" =>
            /\ Clears(p, passes[p].log[i].t, "health") # {}
            /\ Clears(p, passes[p].log[i].t, "reg") # {}

\* C34 as claimed: when a pass has returned and a cloud identity is known,
\* every entity whose registration the pass cleared has had its cloud lookup
\* made by the pass, whatever happened to the entities after it.
C34_DeregisteredEntitiesReachCloud ==
    \A p \in PassIds :
        (passes[p].pc = "returned" /\ cloudIdentity # "") =>
            \A t \in passes[p].known :
                Clears(p, t, "reg") # {} => Attempts(p, t, "lookup") # {}

\* C35 as claimed: with the DeleteFromCloud option off, no pass and no
\* Deregister call makes a lookup or a delete call to the cloud.
C35_NoCloudCallWhenOptionOff ==
    ~config.DeleteFromCloud =>
        /\ \A p \in PassIds : \A i \in DOMAIN passes[p].log : ~IsCloudCall(passes[p].log[i])
        /\ \A outcome \in CloudOutcomes : \A F \in SUBSET {2, 3} :
              LET r == Deregister(<<"a">>, F, outcome)
              IN  \A i \in DOMAIN r.log : ~IsCloudCall(r.log[i])

\* C36 as claimed: when a pass has published its registration messages, none
\* of them went to a topic at which the entity store holds an entity that is
\* neither a container nor a container group.
C36_ForeignRegistrationsKept ==
    \A p \in PassIds : \A i \in DOMAIN passes[p].log :
        LET e == passes[p].log[i]
        IN  (passes[p].pc = "health" /\ IsRegistration(e) /\ e.t \in DOMAIN Entities) =>
                Entities[e.t] \in {ContainerType, ContainerGroupType}

\* The pass has the result of its List call.
Listed(p) ==
    /\ passes[p].pc \in {"register", "health", "twin", "metrics", "stale", "cloud", "returned"}
    /\ passes[p].err # "list"

\* The containers the engine lists for the criteria fo that the client side
\* filters of the claim let through, all of them at once.
PassesAllFilters(id, fo) ==
    LET raw == EngineContainer(id)
        type == IF ComposeProjectLabel \in DOMAIN raw.Labels
                THEN ContainerGroupType ELSE ContainerType
        names == {Tail(raw.Names[1]), GetName(NewContainerFromDockerContainer(raw).Container)}
    IN  /\ fo.Types # {} => type \in fo.Types
        /\ (fo.ExcludeNames \ {InvalidPattern}) \cap names = {}
        /\ fo.ExcludeWithLabel \cap DOMAIN raw.Labels = {}

\* C38: the items a pass gets from List are, once each, the containers the
\* engine lists for the criteria whose type is in the allow-list when there
\* is one, whose container name and display name match no exclude pattern
\* that compiles, and which carry no exclude label; a pattern that does not
\* compile excludes nothing.
C38_ListAppliesAllClientFilters ==
    \A p \in PassIds :
        Listed(p) =>
            LET fo == passes[p].opts
                ids == {passes[p].items[i].Container.Id : i \in DOMAIN passes[p].items}
            IN  /\ ids = {id \in engine : /\ EngineMatches(EngineContainer(id), fo)
                                          /\ PassesAllFilters(id, fo)}
                /\ Cardinality(ids) = Len(passes[p].items)
                /\ fo.ExcludeNames = {InvalidPattern} =>
                      ids = {id \in engine :
                                /\ EngineMatches(EngineContainer(id), fo)
                                /\ PassesAllFilters(id, [fo EXCEPT !.ExcludeNames = {}])}

C38_Witness ==
    \E p \in PassIds :
        /\ Listed(p)
        /\ engine = ContainerIds
        /\ passes[p].opts.Types = {ContainerType, ContainerGroupType}
        /\ passes[p].opts.ExcludeNames = {<<"a">>, InvalidPattern}
        /\ passes[p].opts.ExcludeWithLabel = {}
        /\ ~HasIncludeFilter(passes[p].opts)
        /\ Len(passes[p].items) = 2

\* The topics of the containers the configured criteria fo let through.
AllowedTopics(fo) ==
    LET items == List(ContainerIds, fo)
    IN  {Topic(items[i].Name) : i \in DOMAIN items}

\* C37 as claimed: no pass of the running monitor, the passes after engine
\* events included, publishes a registration message for a container that
\* the configured criteria exclude.
C37_ExcludedContainersNeverRegistered ==
    \A fo \in ConfiguredFilters :
        \A p \in PassIds : \A i \in DOMAIN passes[p].log :
            IsRegistration(passes[p].log[i]) => passes[p].log[i].t \in AllowedTopics(fo)

\* C39: NewApp called without a cloud identity stays in its lookup loop
\* until a lookup succeeds: while none has, no worker runs and RunE has not
\* gone past NewApp, and after every failed lookup NewApp is on its way to
\* another one.
C39_NewAppWaitsForCloudIdentity ==
    /\ cmd.pc \in {"lookup", "sleep"} => (wpc = "notStarted" /\ ~cmd.found)
    /\ (wpc # "notStarted" \/ cmd.pc \in {"none", "update", "wait", "stop", "returned"}) =>
          (cmd.found \/ (cmd.lookups = 0 /\ cloudIdentity # ""))
    /\ cmd.found => cmd.pc \notin {"lookup", "sleep", "identity"}

C39_Witness ==
    /\ cmd.lookups = MaxLookups
    /\ cmd.found
    /\ wpc = "busy"
    /\ cloudIdentity = "device01"

\* C40 as claimed: the install command returns success only if the
\* container was created and started, and a call that fails is the last call
\* the command makes and makes it return an error.
C40_InstallSucceedsOnlyIfStarted ==
    cmd.pc = "returned" =>
        /\ cmd.result = "nil" <=> (cmd.created /\ cmd.started)
        /\ cmd.failed # "none" =>
              /\ cmd.result = "err"
              /\ cmd.calls[Len(cmd.calls)] = cmd.failed

====
